---- MODULE Spec2Model ----
(***************************************************************************)
(* Carbon-intensity resolution of carbontracker: IntensityService          *)
(* (emissions/intensity/intensity.py), the IntensityFetcher interface      *)
(* (emissions/intensity/fetcher.py) and the shipped fetchers               *)
(* (emissions/intensity/fetchers/*.py).                                    *)
(*                                                                         *)
(* Python values are modelled as follows.  None of a string attribute is   *)
(* the string "None", None of an integer argument is the integer None_int. *)
(* A float intensity is an integer number of gCO2eq/kWh.  A log message is *)
(* a record of its template and of the values interpolated into it.  The   *)
(* outcome of a call is a record saying whether it returned or raised.     *)
(***************************************************************************)
EXTENDS Integers, Sequences, FiniteSets, TLC

VARIABLES
    pc,                         \* "new" before IntensityService.__init__, "ready" after
    geo,                        \* what geocoder.ip("me") does in this run
    table,                      \* data/carbon-intensities.csv as pandas reads it
    intensity_fetcher,          \* self.intensity_fetcher (a fetcher kind or "None")
    geo_location,               \* self.geo_location
    address,                    \* self.address
    country,                    \* self.country
    using_global_average,       \* self.using_global_average
    default_carbon_intensity,   \* self.default_carbon_intensity
    log,                        \* the calls of logger.err_warn, in order
    last,                       \* the last operation: arguments, collaborator calls, outcome
    message,                    \* generate_logging_message's argument and text, when it was the last operation
    window,                     \* EnergiDataService._interval's clock reading, duration and result, once called
    ncalls,                     \* operations made after construction
    geo_calls                   \* calls of geocoder.ip

vars == <<pc, geo, table, intensity_fetcher, geo_location, address, country,
          using_global_average, default_carbon_intensity, log, last, message, window,
          ncalls, geo_calls>>

service_vars == <<geo_location, address, country, using_global_average,
                  default_carbon_intensity>>

env_vars == <<geo, table, intensity_fetcher>>

----------------------------------------------------------------------------
(* Bounds of the model. *)

\* fetch / message operations made on one service instance
MaxCalls == 2

\* rows of the static intensity table
MaxRows == 2

----------------------------------------------------------------------------
(* Program constants. *)

WORLD_AVG_CARBON_INTENSITY == 445

WORLD_AVG_CARBON_INTENSITY_YEAR == 2024

\* Python's None where an integer is expected (time_duration, time_dur)
None_int == -1

\* Python's None where a string is expected (an address, a country, a postcode)
None_str == "None"

----------------------------------------------------------------------------
(* Values the inputs are drawn from. *)

Addresses == {"Sample Address"}

Countries == {"US", "DK", "GB"}

\* alpha-2 codes the table may hold a row for; it has no row "Unknown" (the
\* lookup for an unresolved location fails in tests/intensity/test_intensity.py)
TableCountries == {"US"}

TableValues == {120, 300}

\* intensities a fetcher reports
FetchValues == {0, 24}

Durations == {None_int, 300}

----------------------------------------------------------------------------
(* Data model. *)

\* IntensityFetch.__init__: the result value
IntensityFetch(ci, addr, ctry, fetched, localized, prediction, dur) ==
    [carbon_intensity |-> ci,
     address          |-> addr,
     country          |-> ctry,
     is_prediction    |-> prediction,
     is_fetched       |-> fetched,
     is_localized     |-> localized,
     time_duration    |-> dur]

\* the place of a result where a call returned nothing (it raised)
NoResult ==
    [carbon_intensity |-> None_int,
     address          |-> None_str,
     country          |-> None_str,
     is_prediction    |-> FALSE,
     is_fetched       |-> FALSE,
     is_localized     |-> FALSE,
     time_duration    |-> None_int]

\* the object geocoder.ip returns: ok, address, country, postal, lat, lng
Location(isok, addr, ctry, post, la, ln) ==
    [is_none |-> FALSE, ok |-> isok, address |-> addr, country |-> ctry,
     postal |-> post, lat |-> la, lng |-> ln]

\* Python's None where a location is expected
NoneLocation ==
    [is_none |-> TRUE, ok |-> FALSE, address |-> None_str, country |-> None_str,
     postal |-> None_str, lat |-> None_str, lng |-> None_str]

\* a lookup that found nothing: ok is false and nothing else is known
NotOkLocation == Location(FALSE, None_str, None_str, None_str, None_str, None_str)

\* resolved locations: with a postcode and coordinates, or with neither
OkLocations ==
    {Location(TRUE, a, c, d[1], d[2], d[3]) :
        a \in Addresses, c \in Countries,
        d \in {<<"SW1A", "0.0", "0.0">>, <<None_str, None_str, None_str>>}}

\* geocoder.ip("me"): raises, or returns a location that is ok or not
GeoOutcomes ==
    {[raises |-> TRUE, loc |-> NoneLocation]}
    \cup {[raises |-> FALSE, loc |-> l] : l \in OkLocations \cup {NotOkLocation}}

\* the table: unreadable, or its rows (alpha-2, intensity) in file order
TableRows == TableCountries \X TableValues

RECURSIVE SeqsUpTo(_, _)
SeqsUpTo(S, n) ==
    IF n = 0 THEN {<<>>}
    ELSE LET shorter == SeqsUpTo(S, n - 1)
         IN  shorter \cup {Append(q, x) : q \in {r \in shorter : Len(r) = n - 1}, x \in S}

Tables ==
    {[readable |-> FALSE, rows |-> <<>>]}
    \cup {[readable |-> TRUE, rows |-> r] : r \in SeqsUpTo(TableRows, MaxRows)}

\* the fetcher given to the service: none, the bare interface class, a shipped
\* fetcher, or an object that has the carbon_intensity method line 46 calls
FetcherKinds ==
    {"None", "IntensityFetcher", "CarbonIntensityGB", "ElectricityMap",
     "EnergiDataService", "Custom"}

\* a log message: its template and the values it interpolates
Omitted == "<omitted>"

Message(tmpl, addr, ctry, val) ==
    [template |-> tmpl, address |-> addr, country |-> ctry, value |-> val]

\* the outcome of a call: returned a value, or raised exc
Returned(v) == [raised |-> FALSE, exc |-> "", value |-> v]

Raised(e, dummy) == [raised |-> TRUE, exc |-> e, value |-> dummy]

----------------------------------------------------------------------------
(* HTTP: what requests.get gives for one request. *)

\* "neterr": requests.get raises; "notok": response.ok is false; "badjson":
\* response.json() raises; "nokey": the body lacks the key read; "empty": the
\* list read is empty; "ok": the body holds these values
FailKinds == {"neterr", "notok", "badjson", "nokey", "empty"}

\* values one response holds
MaxValues == 2

Responses ==
    {[kind |-> k, values |-> <<>>] : k \in FailKinds}
    \cup {[kind |-> "ok", values |-> v] : v \in SeqsUpTo(FetchValues, MaxValues) \ {<<>>}}

\* the responses to the first and to the second request of one fetch
ResponsePairs == Responses \X Responses

RECURSIVE Sum(_)
Sum(q) == IF q = <<>> THEN 0 ELSE Head(q) + Sum(Tail(q))

\* numpy.mean of a non-empty list (FetchValues are chosen so that it is exact)
Mean(q) == Sum(q) \div Len(q)

Request(endpoint, arg, dur) == [endpoint |-> endpoint, arg |-> arg, time_dur |-> dur]

\* a response as far as a caller that reads only the first value reads it
FirstOf(resp) ==
    IF resp.kind = "ok" THEN [kind |-> "ok", values |-> <<Head(resp.values)>>] ELSE resp

\* a request that requests.get was called with, together with what was read of
\* the response
Answered(req, resp) ==
    [endpoint |-> req.endpoint, arg |-> req.arg, time_dur |-> req.time_dur,
     answer |-> resp]

\* what one lookup of a fetcher did: the requests it made, and its outcome
Lookup(reqs, isRaised, e, v) == [requests |-> reqs, raised |-> isRaised, exc |-> e, value |-> v]

\* the exception a response that is not read successfully ends in; onEmpty is
\* what the caller does with an empty list
ResponseError(resp, onEmpty) ==
    CASE resp.kind = "neterr"  -> "ConnectionError"
      [] resp.kind = "notok"   -> "CarbonIntensityFetcherError"
      [] resp.kind = "badjson" -> "JSONDecodeError"
      [] resp.kind = "nokey"   -> "KeyError"
      [] resp.kind = "empty"   -> onEmpty
      [] OTHER                 -> ""

----------------------------------------------------------------------------
(* ElectricityMap (fetchers/electricitymaps.py). *)

ElectricityMap_suitable(g_location) == TRUE

\* _carbon_intensity_by_location(lon, lat, zone): one request, or none when
\* neither a zone nor both coordinates are given (params is then unbound)
_carbon_intensity_by_location(lon, lat, zone, resp) ==
    IF zone = None_str /\ (lon = None_str \/ lat = None_str)
    THEN Lookup(<<>>, TRUE, "UnboundLocalError", None_int)
    ELSE LET req == IF zone # None_str
                    THEN Request("zone", <<zone>>, None_int)
                    ELSE Request("lonlat", <<lon, lat>>, None_int)
         IN  IF resp.kind = "ok"
             THEN Lookup(<<Answered(req, FirstOf(resp))>>, FALSE, "", Head(resp.values))
             ELSE Lookup(<<Answered(req, FirstOf(resp))>>, TRUE,
                         ResponseError(resp, "KeyError"), None_int)

\* the result ElectricityMap builds from a fetched value
ElectricityMap_result(ci, g_location) ==
    IntensityFetch(ci, g_location.address, g_location.country, TRUE, TRUE, FALSE, None_int)

\* ElectricityMap's fetch, were it to report the duration it is given as a
\* forecast horizon
ElectricityMap_fetch_carbon_intensity_forecasting(g_location, time_dur, resps) ==
    LET byCoords ==
            IF g_location.is_none
            THEN Lookup(<<>>, TRUE, "AttributeError", None_int)
            ELSE _carbon_intensity_by_location(g_location.lng, g_location.lat,
                                               None_str, resps[1])
        byZone ==
            IF g_location.is_none
            THEN Lookup(<<>>, TRUE, "AttributeError", None_int)
            ELSE _carbon_intensity_by_location(None_str, None_str, g_location.country,
                                               resps[Len(byCoords.requests) + 1])
        found == IF byCoords.raised THEN byZone ELSE byCoords
        reqs  == IF byCoords.raised THEN byCoords.requests \o byZone.requests
                 ELSE byCoords.requests
    IN  IF found.raised
        THEN Lookup(reqs, TRUE, found.exc, NoResult)
        ELSE Lookup(reqs, FALSE, "",
                    IntensityFetch(found.value, g_location.address, g_location.country,
                                   TRUE, TRUE, time_dur # None_int, time_dur))

\* ElectricityMap's fetch with the two strategies in the other order: by
\* zone first, by coordinates when that failed
ElectricityMap_fetch_carbon_intensity_zone_first(g_location, time_dur, resps) ==
    LET byZone ==
            IF g_location.is_none
            THEN Lookup(<<>>, TRUE, "AttributeError", None_int)
            ELSE _carbon_intensity_by_location(None_str, None_str, g_location.country,
                                               resps[1])
        byCoords ==
            IF g_location.is_none
            THEN Lookup(<<>>, TRUE, "AttributeError", None_int)
            ELSE _carbon_intensity_by_location(g_location.lng, g_location.lat,
                                               None_str, resps[Len(byZone.requests) + 1])
        found == IF byZone.raised THEN byCoords ELSE byZone
        reqs  == IF byZone.raised THEN byZone.requests \o byCoords.requests
                 ELSE byZone.requests
    IN  IF found.raised
        THEN Lookup(reqs, TRUE, found.exc, NoResult)
        ELSE Lookup(reqs, FALSE, "", ElectricityMap_result(found.value, g_location))

ElectricityMap_fetch_carbon_intensity(g_location, time_dur, resps) ==
    LET byCoords ==
            IF g_location.is_none
            THEN Lookup(<<>>, TRUE, "AttributeError", None_int)
            ELSE _carbon_intensity_by_location(g_location.lng, g_location.lat,
                                               None_str, resps[1])
        byZone ==
            IF g_location.is_none
            THEN Lookup(<<>>, TRUE, "AttributeError", None_int)
            ELSE _carbon_intensity_by_location(None_str, None_str, g_location.country,
                                               resps[Len(byCoords.requests) + 1])
        found == IF byCoords.raised THEN byZone ELSE byCoords
        reqs  == IF byCoords.raised THEN byCoords.requests \o byZone.requests
                 ELSE byCoords.requests
    IN  IF found.raised
        THEN Lookup(reqs, TRUE, found.exc, NoResult)
        ELSE Lookup(reqs, FALSE, "", ElectricityMap_result(found.value, g_location))

----------------------------------------------------------------------------
(* CarbonIntensityGB (fetchers/carbonintensitygb.py). *)

CarbonIntensityGB_suitable(g_location) == g_location.country = "GB"

_carbon_intensity_gb_regional(postcode, time_dur, resp) ==
    LET req == Request("regional", <<postcode>>, time_dur)
    IN  IF resp.kind = "ok"
        THEN Lookup(<<Answered(req, resp)>>, FALSE, "", Mean(resp.values))
        ELSE Lookup(<<Answered(req, resp)>>, TRUE, ResponseError(resp, "CarbonIntensityFetcherError"),
                    None_int)

_carbon_intensity_gb_national(time_dur, resp) ==
    LET req == Request("national", <<>>, time_dur)
    IN  IF resp.kind = "ok"
        THEN Lookup(<<Answered(req, FirstOf(resp))>>, FALSE, "", Head(resp.values))
        ELSE Lookup(<<Answered(req, FirstOf(resp))>>, TRUE,
                    ResponseError(resp, "IndexError"), None_int)

\* a forecasting result that keeps the horizon but is never marked a prediction
Forecasting_result_never_prediction(ci, g_location, time_dur) ==
    IntensityFetch(ci, g_location.address, g_location.country, TRUE, TRUE,
                   FALSE, time_dur)

\* the result the forecasting fetchers build from a fetched value
Forecasting_result(ci, g_location, time_dur) ==
    IntensityFetch(ci, g_location.address, g_location.country, TRUE, TRUE,
                   time_dur # None_int, time_dur)

\* CarbonIntensityGB's fetch, were it to make the national query whatever the
\* regional query gave
CarbonIntensityGB_fetch_carbon_intensity_national_always(g_location, time_dur, resps) ==
    LET postcode == g_location.postal
        regional ==
            IF postcode # None_str
            THEN _carbon_intensity_gb_regional(postcode, time_dur, resps[1])
            ELSE Lookup(<<>>, TRUE, "", None_int)
        national ==
            _carbon_intensity_gb_national(time_dur, resps[Len(regional.requests) + 1])
        found == IF regional.raised THEN national ELSE regional
        reqs  == regional.requests \o national.requests
    IN  IF found.raised
        THEN Lookup(reqs, TRUE, found.exc, NoResult)
        ELSE IF g_location.is_none
        THEN Lookup(reqs, TRUE, "AttributeError", NoResult)
        ELSE Lookup(reqs, FALSE, "", Forecasting_result(found.value, g_location, time_dur))

CarbonIntensityGB_fetch_carbon_intensity(g_location, time_dur, resps) ==
    LET postcode == g_location.postal
        regional ==
            IF postcode # None_str
            THEN _carbon_intensity_gb_regional(postcode, time_dur, resps[1])
            ELSE Lookup(<<>>, TRUE, "", None_int)      \* no request: ci stays None
        national ==
            _carbon_intensity_gb_national(time_dur, resps[Len(regional.requests) + 1])
        found == IF regional.raised THEN national ELSE regional
        reqs  == IF regional.raised THEN regional.requests \o national.requests
                 ELSE regional.requests
    IN  IF found.raised
        THEN Lookup(reqs, TRUE, found.exc, NoResult)
        ELSE IF g_location.is_none
        THEN Lookup(reqs, TRUE, "AttributeError", NoResult)
        ELSE Lookup(reqs, FALSE, "", Forecasting_result(found.value, g_location, time_dur))

----------------------------------------------------------------------------
(* EnergiDataService (fetchers/energidataservice.py). *)

EnergiDataService_suitable(g_location) == g_location.country = "DK"

\* a datetime of one day, as its seconds since midnight (whole seconds)
minute(time) == (time \div 60) % 60

second(time) == time % 60

\* time.strftime("%Y-%m-%dT%H:%M") within the day: the hour and the minute
strftime(time) == [hour |-> time \div 3600, minute |-> minute(time)]

\* _nearest_5_min(time)
_nearest_5_min(time) ==
    LET nearest_5_min == time - ((minute(time) % 5) * 60 + second(time))
    IN  strftime(nearest_5_min)

\* _interval(time_dur) when datetime.now() is from_time
_interval(from_time, time_dur) ==
    LET to_time == from_time + time_dur
    IN  [from_str |-> _nearest_5_min(from_time), to_str |-> _nearest_5_min(to_time)]

\* the clock readings: around a boundary, and across the hour
Times ==
    {12 * 3600 + m * 60 + sec : m \in (0 .. 9) \cup {57, 58, 59},
                                sec \in {0, 29, 30, 31, 59}}

NoWindow == [now |-> None_int, time_dur |-> None_int,
             from_str |-> strftime(0), to_str |-> strftime(0)]

\* one request of _emission_current or _emission_prognosis: the records read
EnergiDataService_records(req, resp) ==
    IF resp.kind = "ok"
    THEN [requests |-> <<Answered(req, resp)>>, raised |-> FALSE, exc |-> "", value |-> resp.values]
    ELSE [requests |-> <<Answered(req, resp)>>, raised |-> TRUE,
          exc |-> ResponseError(resp, "CarbonIntensityFetcherError"), value |-> <<>>]

_emission_current(resps) ==
    LET dk1 == EnergiDataService_records(Request("current", <<"DK1">>, None_int),
                                         FirstOf(resps[1]))
        dk2 == EnergiDataService_records(Request("current", <<"DK2">>, None_int),
                                         FirstOf(resps[2]))
    IN  IF dk1.raised THEN Lookup(dk1.requests, TRUE, dk1.exc, None_int)
        ELSE IF dk2.raised
        THEN Lookup(dk1.requests \o dk2.requests, TRUE, dk2.exc, None_int)
        ELSE Lookup(dk1.requests \o dk2.requests, FALSE, "",
                    Mean(<<Head(dk1.value), Head(dk2.value)>>))

_emission_prognosis(time_dur, resps) ==
    LET got == EnergiDataService_records(Request("prognosis", <<>>, time_dur), resps[1])
    IN  IF got.raised THEN Lookup(got.requests, TRUE, got.exc, None_int)
        ELSE Lookup(got.requests, FALSE, "", Mean(got.value))

EnergiDataService_fetch_carbon_intensity(g_location, time_dur, resps) ==
    LET found == IF time_dur = None_int THEN _emission_current(resps)
                 ELSE _emission_prognosis(time_dur, resps)
    IN  IF found.raised
        THEN Lookup(found.requests, TRUE, found.exc, NoResult)
        ELSE IF g_location.is_none
        THEN Lookup(found.requests, TRUE, "AttributeError", NoResult)
        ELSE Lookup(found.requests, FALSE, "",
                    Forecasting_result(found.value, g_location, time_dur))

----------------------------------------------------------------------------
(* The fetcher the service holds, by kind. *)

ShippedFetchers == {"CarbonIntensityGB", "ElectricityMap", "EnergiDataService"}

\* fetcher.suitable(g_location); only a Custom fetcher chooses (choice)
suitable(fetcher, g_location, choice) ==
    CASE fetcher = "None"              -> Raised("AttributeError", FALSE)
      [] fetcher = "IntensityFetcher"  -> Raised("NotImplementedError", FALSE)
      [] fetcher = "CarbonIntensityGB" -> Returned(CarbonIntensityGB_suitable(g_location))
      [] fetcher = "ElectricityMap"    -> Returned(ElectricityMap_suitable(g_location))
      [] fetcher = "EnergiDataService" -> Returned(EnergiDataService_suitable(g_location))
      [] OTHER                         -> choice

SuitableChoices(fetcher) ==
    IF fetcher = "Custom"
    THEN {Returned(TRUE), Returned(FALSE), Raised("Exception", FALSE)}
    ELSE {Returned(TRUE)}

\* fetcher.carbon_intensity(g_location=..., time_dur=...): the interface and the
\* shipped fetchers have no such attribute; a Custom fetcher chooses (choice)
carbon_intensity(fetcher, choice) ==
    IF fetcher = "Custom" THEN choice ELSE Raised("AttributeError", None_int)

CarbonIntensityChoices(fetcher) ==
    IF fetcher = "Custom"
    THEN {Returned(v) : v \in FetchValues} \cup {Raised("Exception", None_int)}
    ELSE {Raised("AttributeError", None_int)}

Outcome(lookup) == [raised |-> lookup.raised, exc |-> lookup.exc, value |-> lookup.value]

\* fetcher.fetch_carbon_intensity(g_location, time_dur), the interface's fetch
\* operation; a shipped fetcher depends on the responses, a Custom one chooses
IntensityFetcher_fetch_carbon_intensity(fetcher, g_location, time_dur, resps, choice) ==
    CASE fetcher = "None"              -> Raised("AttributeError", NoResult)
      [] fetcher = "IntensityFetcher"  -> Raised("NotImplementedError", NoResult)
      [] fetcher = "CarbonIntensityGB" ->
            CarbonIntensityGB_fetch_carbon_intensity(g_location, time_dur, resps)
      [] fetcher = "ElectricityMap"    ->
            ElectricityMap_fetch_carbon_intensity(g_location, time_dur, resps)
      [] fetcher = "EnergiDataService" ->
            EnergiDataService_fetch_carbon_intensity(g_location, time_dur, resps)
      [] OTHER                         ->
            IF choice.raised THEN Raised(choice.exc, NoResult)
            ELSE Returned(Forecasting_result(choice.value, g_location, time_dur))

FetchChoices(fetcher) ==
    IF fetcher = "Custom"
    THEN {Returned(v) : v \in FetchValues} \cup {Raised("Exception", None_int)}
    ELSE {Returned(0)}

FetchResponses(fetcher) ==
    IF fetcher \in ShippedFetchers THEN ResponsePairs
    ELSE {<<[kind |-> "neterr", values |-> <<>>], [kind |-> "neterr", values |-> <<>>]>>}

----------------------------------------------------------------------------
(* IntensityService (intensity.py). *)

_fetch_geo_location(g) == IF g.raises THEN NoneLocation ELSE g.loc

\* _get_address without the test of ok: a not-ok location gives its own address
_get_address_ignoring_ok(g_location) ==
    IF g_location.is_none THEN "Unknown" ELSE g_location.address

_get_address(g_location) ==
    IF g_location.is_none \/ ~g_location.ok THEN "Unknown" ELSE g_location.address

_get_country(g_location) ==
    IF g_location.is_none \/ ~g_location.ok THEN "Unknown" ELSE g_location.country

\* the row filter left out: every row matches
MatchingRows_unfiltered(rows, ctry) == rows

\* carbon_intensities_df[carbon_intensities_df["alpha-2"] == country]
MatchingRows(rows, ctry) == SelectSeq(rows, LAMBDA r : r[1] = ctry)

\* .iloc[-1] in place of .iloc[0]
FirstIntensity_last_row(rows) == rows[Len(rows)][2]

\* .iloc[0] of the matching rows, and its intensity column
FirstIntensity(rows) == Head(rows)[2]

\* the result of the except branch of _get_default_carbon_intensity
WorldAverageDefault(addr, ctry) ==
    IntensityFetch(WORLD_AVG_CARBON_INTENSITY, addr, ctry, FALSE, FALSE, FALSE, None_int)

\* the result of the try branch of _get_default_carbon_intensity
CountryDefault(intensity, addr, ctry) ==
    IntensityFetch(intensity, addr, ctry, FALSE, TRUE, FALSE, None_int)

\* _get_default_carbon_intensity: the result, self.using_global_average after
\* it, and what it logs
_get_default_carbon_intensity(tbl, addr, ctry) ==
    IF tbl.readable /\ MatchingRows(tbl.rows, ctry) # <<>>
    THEN [result |-> CountryDefault(FirstIntensity(MatchingRows(tbl.rows, ctry)), addr, ctry),
          using_global_average |-> FALSE,
          logged |-> <<>>]
    ELSE [result |-> WorldAverageDefault(addr, ctry),
          using_global_average |-> TRUE,
          logged |-> <<Message("Unable to determine average default carbon intensity for your specific location {address}.",
                               addr, Omitted, None_int)>>]

\* is_localized taken from whether an address was detected
FetchedResult_localized_by_address(ci, addr, ctry) ==
    IntensityFetch(ci, addr, ctry, TRUE, addr # "Unknown", FALSE, None_int)

\* the result fetch_carbon_intensity builds from the value the fetcher gave
FetchedResult(ci, addr, ctry) ==
    IntensityFetch(ci, addr, ctry, TRUE, TRUE, FALSE, None_int)

UnableMessage(addr) ==
    Message("Fetcher is unable to retrieve carbon intensity data for your detected location {address}",
            addr, Omitted, None_int)

CouldNotRetrieveMessage ==
    Message("Could not retrieve carbon intensity data", Omitted, Omitted, None_int)

\* what one call of a service operation did
Call(isRaised, e, res, msgs, nSuitable, nCarbonIntensity, nFetch) ==
    [raised |-> isRaised, exc |-> e, result |-> res, logged |-> msgs,
     suitable_calls |-> nSuitable, carbon_intensity_calls |-> nCarbonIntensity,
     fetch_calls |-> nFetch]

\* fetch_carbon_intensity answering the world average when there is no fetcher
fetch_carbon_intensity_world_average(time_duration, suit, ci) ==
    IF intensity_fetcher = "None"
    THEN Call(FALSE, "", WorldAverageDefault(address, country), <<>>, 0, 0, 0)
    ELSE IF suit.raised
    THEN Call(TRUE, suit.exc, NoResult, <<>>, 1, 0, 0)
    ELSE LET warned == IF ~suit.value THEN <<UnableMessage(address)>> ELSE <<>>
         IN  IF ci.raised
             THEN Call(FALSE, "", default_carbon_intensity,
                       warned \o <<CouldNotRetrieveMessage>>, 1, 1, 0)
             ELSE Call(FALSE, "", FetchedResult(ci.value, address, country),
                       warned, 1, 1, 0)

\* IntensityService.fetch_carbon_intensity(time_duration), given what the
\* fetcher's suitable and carbon_intensity do in this call
fetch_carbon_intensity(time_duration, suit, ci) ==
    IF intensity_fetcher = "None"
    THEN Call(FALSE, "", default_carbon_intensity, <<>>, 0, 0, 0)
    ELSE IF suit.raised
    THEN Call(TRUE, suit.exc, NoResult, <<>>, 1, 0, 0)
    ELSE LET warned == IF ~suit.value THEN <<UnableMessage(address)>> ELSE <<>>
         IN  IF ci.raised
             THEN Call(FALSE, "", default_carbon_intensity,
                       warned \o <<CouldNotRetrieveMessage>>, 1, 1, 0)
             ELSE Call(FALSE, "", FetchedResult(ci.value, address, country),
                       warned, 1, 1, 0)

----------------------------------------------------------------------------
(* IntensityService.generate_logging_message. *)

\* the string generate_logging_message returns: its template and the values
\* interpolated; value is the intensity as ":.2f" prints it (in hundredths),
\* duration the seconds handed to loggerutil.convert_to_timestring
LogText(tmpl, loc, addr, ctry, val, dur, year) ==
    [template |-> tmpl, location |-> loc, address |-> addr, country |-> ctry,
     value |-> val, duration |-> dur, year |-> year]

NoText == LogText("", Omitted, Omitted, Omitted, None_int, None_int, None_int)

\* f"{x:.2f}" of an intensity: two decimal places
TwoDecimals(x) == x * 100

ForecastForTemplate ==
    "Forecasted carbon intensity for the next {duration}: {carbon_intensity:.2f} gCO2eq/kWh."

ForecastTemplate == "Forecasted carbon intensity: {carbon_intensity:.2f} gCO2eq/kWh."

FailedForTemplate ==
    "Failed to predict carbon intensity for the next {duration}, fallback on average measured intensity at detected location: {self.address}."

FailedTemplate ==
    "Failed to predict carbon intensity, fallback on average measured intensity at detected location: {self.address}."

LiveTemplate == "Live carbon intensity fetched for {location}: {carbon_intensity:.2f} gCO2eq/kWh."

FetchedGlobalTemplate ==
    "Live carbon intensity could not be fetched at detected location: {address}.Defaulted to average global carbon intensity: {carbon_intensity:.2f} gCO2eq/kWh. ({year})"

CountryTemplate ==
    "Defaulted to average carbon intensity for {country}: {carbon_intensity:.2f} gCO2eq/kWh."

GlobalTemplate ==
    "Live carbon intensity could not be fetched at detected location: {address}. Defaulted to average global carbon intensity: {carbon_intensity:.2f} gCO2eq/kWh ({year})."

\* generate_logging_message without the test of is_localized: every fetched
\* reading is reported as live
generate_logging_message_always_live(self_address, carbon_intensity_fetch) ==
    LET f        == carbon_intensity_fetch
        location == IF self_address # "Unknown" THEN self_address ELSE "detected location"
        value    == TwoDecimals(f.carbon_intensity)
    IN  IF f.is_prediction
        THEN IF f.is_fetched
             THEN IF f.time_duration # None_int
                  THEN LogText(ForecastForTemplate, Omitted, Omitted, Omitted, value,
                               f.time_duration, None_int)
                  ELSE LogText(ForecastTemplate, Omitted, Omitted, Omitted, value,
                               None_int, None_int)
             ELSE IF f.time_duration # None_int
                  THEN LogText(FailedForTemplate, Omitted, self_address, Omitted, None_int,
                               f.time_duration, None_int)
                  ELSE LogText(FailedTemplate, Omitted, self_address, Omitted, None_int,
                               None_int, None_int)
        ELSE IF f.is_fetched
        THEN LogText(LiveTemplate, location, Omitted, Omitted, value, None_int, None_int)
        ELSE IF f.is_localized
        THEN LogText(CountryTemplate, Omitted, Omitted, f.country, value, None_int, None_int)
        ELSE LogText(GlobalTemplate, Omitted, f.address, Omitted, value, None_int,
                     WORLD_AVG_CARBON_INTENSITY_YEAR)

\* generate_logging_message(carbon_intensity_fetch) of a service whose
\* self.address is self_address
generate_logging_message(self_address, carbon_intensity_fetch) ==
    LET f        == carbon_intensity_fetch
        location == IF self_address # "Unknown" THEN self_address ELSE "detected location"
        value    == TwoDecimals(f.carbon_intensity)
    IN  IF f.is_prediction
        THEN IF f.is_fetched
             THEN IF f.time_duration # None_int
                  THEN LogText(ForecastForTemplate, Omitted, Omitted, Omitted, value,
                               f.time_duration, None_int)
                  ELSE LogText(ForecastTemplate, Omitted, Omitted, Omitted, value,
                               None_int, None_int)
             ELSE IF f.time_duration # None_int
                  THEN LogText(FailedForTemplate, Omitted, self_address, Omitted, None_int,
                               f.time_duration, None_int)
                  ELSE LogText(FailedTemplate, Omitted, self_address, Omitted, None_int,
                               None_int, None_int)
        ELSE IF f.is_fetched
        THEN IF f.is_localized
             THEN LogText(LiveTemplate, location, Omitted, Omitted, value, None_int, None_int)
             ELSE LogText(FetchedGlobalTemplate, Omitted, f.address, Omitted, value,
                          None_int, WORLD_AVG_CARBON_INTENSITY_YEAR)
        ELSE IF f.is_localized
        THEN LogText(CountryTemplate, Omitted, Omitted, f.country, value, None_int, None_int)
        ELSE LogText(GlobalTemplate, Omitted, f.address, Omitted, value, None_int,
                     WORLD_AVG_CARBON_INTENSITY_YEAR)

\* results generate_logging_message is tried on: every combination of the
\* flags and of the horizon, for a result address that is known or not
MessageInputs ==
    {IntensityFetch(143, a, "DK", fetched, localized, prediction, d) :
        a \in {"Copenhagen, DK", "Unknown"}, fetched \in BOOLEAN,
        localized \in BOOLEAN, prediction \in BOOLEAN, d \in Durations}

----------------------------------------------------------------------------
(* The state machine. *)

\* generate_logging_message was not the last operation
NoMessage == [arg |-> NoResult, text |-> NoText]

NoOutcome(v) == Returned(v)

\* the record of an operation
Operation(op, dur, suit, ci, iface, reqs, call) ==
    [op |-> op, time_duration |-> dur, suitable |-> suit, carbon_intensity |-> ci,
     fetch |-> iface, requests |-> reqs,
     raised |-> call.raised, exc |-> call.exc, result |-> call.result,
     logged |-> call.logged, suitable_calls |-> call.suitable_calls,
     carbon_intensity_calls |-> call.carbon_intensity_calls,
     fetch_calls |-> call.fetch_calls]

NoOperation ==
    Operation("none", None_int, NoOutcome(FALSE), NoOutcome(None_int),
              NoOutcome(NoResult), <<>>, Call(FALSE, "", NoResult, <<>>, 0, 0, 0))

\* before IntensityService(logger, intensity_fetcher): the collaborators are
\* fixed, the instance has no attributes yet
Init ==
    /\ pc = "new"
    /\ geo \in GeoOutcomes
    /\ table \in Tables
    /\ intensity_fetcher \in FetcherKinds
    /\ geo_location = NoneLocation
    /\ address = None_str
    /\ country = None_str
    /\ using_global_average = FALSE
    /\ default_carbon_intensity = NoResult
    /\ log = <<>>
    /\ last = NoOperation
    /\ message = NoMessage
    /\ window = NoWindow
    /\ ncalls = 0
    /\ geo_calls = 0

\* IntensityService.__init__
\* a construction that asks the geolocation collaborator again for the address
\* and for the country
Construct_resolving_per_field ==
    /\ pc = "new"
    /\ LET loc  == _fetch_geo_location(geo)
           addr == _get_address(loc)
           ctry == _get_country(loc)
           dflt == _get_default_carbon_intensity(table, addr, ctry)
       IN  /\ geo_location' = loc
           /\ address' = addr
           /\ country' = ctry
           /\ using_global_average' = dflt.using_global_average
           /\ default_carbon_intensity' = dflt.result
           /\ log' = log \o dflt.logged
           /\ last' = Operation("__init__", None_int, NoOutcome(FALSE),
                                NoOutcome(None_int), NoOutcome(NoResult), <<>>,
                                Call(FALSE, "", dflt.result, dflt.logged, 0, 0, 0))
    /\ geo_calls' = geo_calls + 3
    /\ pc' = "ready"
    /\ message' = NoMessage
    /\ UNCHANGED <<env_vars, ncalls, window>>

Construct ==
    /\ pc = "new"
    /\ LET loc  == _fetch_geo_location(geo)
           addr == _get_address(loc)
           ctry == _get_country(loc)
           dflt == _get_default_carbon_intensity(table, addr, ctry)
       IN  /\ geo_location' = loc
           /\ address' = addr
           /\ country' = ctry
           /\ using_global_average' = dflt.using_global_average
           /\ default_carbon_intensity' = dflt.result
           /\ log' = log \o dflt.logged
           /\ last' = Operation("__init__", None_int, NoOutcome(FALSE),
                                NoOutcome(None_int), NoOutcome(NoResult), <<>>,
                                Call(FALSE, "", dflt.result, dflt.logged, 0, 0, 0))
    /\ geo_calls' = geo_calls + 1
    /\ pc' = "ready"
    /\ message' = NoMessage
    /\ UNCHANGED <<env_vars, ncalls, window>>

\* every location a service can hold
AllLocations == OkLocations \cup {NotOkLocation, NoneLocation}

\* what the fetcher's fetch_carbon_intensity can do in one call: one lookup
\* for every way its requests can be answered (tabulated once)
FetchLookupTable ==
    [f \in FetcherKinds, l \in AllLocations, d \in Durations |->
        {IntensityFetcher_fetch_carbon_intensity(f, l, d, resps, choice) :
            resps \in FetchResponses(f), choice \in FetchChoices(f)}]

FetchLookups(fetcher, g_location, time_dur) == FetchLookupTable[fetcher, g_location, time_dur]

FetchOutcomeTable ==
    [f \in FetcherKinds, l \in AllLocations, d \in Durations |->
        {Outcome(x) : x \in FetchLookupTable[f, l, d]}]

FetchOutcomes(fetcher, g_location, time_dur) == FetchOutcomeTable[fetcher, g_location, time_dur]

\* a fetch_carbon_intensity that keeps the value it fetched as the new default
FetchCarbonIntensity_caching ==
    /\ pc = "ready"
    /\ ncalls < MaxCalls
    /\ \E time_duration \in Durations :
       \E suitChoice \in SuitableChoices(intensity_fetcher) :
       \E ciChoice \in CarbonIntensityChoices(intensity_fetcher) :
       \E iface \in FetchOutcomes(intensity_fetcher, geo_location, time_duration) :
          LET suit  == suitable(intensity_fetcher, geo_location, suitChoice)
              ci    == carbon_intensity(intensity_fetcher, ciChoice)
              call  == fetch_carbon_intensity(time_duration, suit, ci)
          IN  /\ last' = Operation("fetch_carbon_intensity", time_duration, suit, ci,
                                   iface, <<>>, call)
              /\ log' = log \o call.logged
              /\ default_carbon_intensity' =
                     IF ~call.raised /\ call.result.is_fetched
                     THEN call.result ELSE default_carbon_intensity
    /\ ncalls' = ncalls + 1
    /\ message' = NoMessage
    /\ UNCHANGED <<pc, env_vars, geo_location, address, country, using_global_average,
                   geo_calls, window>>

\* IntensityService.fetch_carbon_intensity(time_duration); the fetcher's three
\* operations behave in this call as chosen here
FetchCarbonIntensity ==
    /\ pc = "ready"
    /\ ncalls < MaxCalls
    /\ \E time_duration \in Durations :
       \E suitChoice \in SuitableChoices(intensity_fetcher) :
       \E ciChoice \in CarbonIntensityChoices(intensity_fetcher) :
       \E iface \in FetchOutcomes(intensity_fetcher, geo_location, time_duration) :
          LET suit  == suitable(intensity_fetcher, geo_location, suitChoice)
              ci    == carbon_intensity(intensity_fetcher, ciChoice)
              call  == fetch_carbon_intensity(time_duration, suit, ci)
          IN  /\ last' = Operation("fetch_carbon_intensity", time_duration, suit, ci,
                                   iface, <<>>, call)
              /\ log' = log \o call.logged
    /\ ncalls' = ncalls + 1
    /\ message' = NoMessage
    /\ UNCHANGED <<pc, env_vars, service_vars, geo_calls, window>>

\* the configured shipped fetcher's fetch_carbon_intensity, called with the
\* service's location
FetcherFetch ==
    /\ pc = "ready"
    /\ ncalls < MaxCalls
    /\ intensity_fetcher \in ShippedFetchers
    /\ \E time_dur \in Durations :
       \E got \in FetchLookups(intensity_fetcher, geo_location, time_dur) :
          last' = Operation("fetcher.fetch_carbon_intensity", time_dur,
                            NoOutcome(FALSE), NoOutcome(None_int), Outcome(got),
                            got.requests,
                            Call(got.raised, got.exc, got.value, <<>>, 0, 0, 1))
    /\ ncalls' = ncalls + 1
    /\ message' = NoMessage
    /\ UNCHANGED <<pc, env_vars, service_vars, log, geo_calls, window>>

\* the record of a generate_logging_message call: it calls no collaborator
MessageOperation ==
    Operation("generate_logging_message", None_int, NoOutcome(FALSE),
              NoOutcome(None_int), NoOutcome(NoResult), <<>>,
              Call(FALSE, "", NoResult, <<>>, 0, 0, 0))

\* the results the service instance has at hand: its default, and the result
\* the last fetch returned
ResultsAtHand ==
    {default_carbon_intensity}
    \cup (IF /\ last.op \in {"fetch_carbon_intensity", "fetcher.fetch_carbon_intensity"}
              /\ ~last.raised
           THEN {last.result} ELSE {})

\* IntensityService.generate_logging_message(carbon_intensity_fetch) with the
\* result carbon_intensity_fetch
GenerateMessage(carbon_intensity_fetch) ==
    /\ pc = "ready"
    /\ ncalls < MaxCalls
    /\ message' = [arg |-> carbon_intensity_fetch,
                   text |-> generate_logging_message(address, carbon_intensity_fetch)]
    /\ last' = MessageOperation
    /\ ncalls' = ncalls + 1
    /\ UNCHANGED <<pc, env_vars, service_vars, log, geo_calls, window>>

\* generate_logging_message of a result the service produced
GenerateLoggingMessage == \E f \in ResultsAtHand : GenerateMessage(f)

\* generate_logging_message of any result
GenerateLoggingMessageOfAny == \E f \in MessageInputs : GenerateMessage(f)

\* EnergiDataService._interval(time_dur), called at clock reading now
Interval ==
    /\ intensity_fetcher = "EnergiDataService"
    /\ \E now \in Times, time_dur \in Durations \ {None_int} :
          LET w == _interval(now, time_dur)
          IN  window' = [now |-> now, time_dur |-> time_dur,
                         from_str |-> w.from_str, to_str |-> w.to_str]
    /\ UNCHANGED <<pc, env_vars, service_vars, log, last, message, ncalls, geo_calls>>

Next ==
    \/ Construct
    \/ FetchCarbonIntensity
    \/ FetcherFetch
    \/ GenerateLoggingMessage

Spec == Init /\ [][Next]_vars

\* the message function alone, applied to every combination of its inputs
MessageNext ==
    \/ Construct
    \/ GenerateLoggingMessageOfAny

MessageSpec == Init /\ [][MessageNext]_vars

----------------------------------------------------------------------------
(* Properties of IntensityService.fetch_carbon_intensity. *)

ServiceFetched == pc = "ready" /\ last.op = "fetch_carbon_intensity"

LocationResolved == ~geo_location.is_none /\ geo_location.ok

\* a logged message that names the detected address and the fallback country
\* and value
NamesAddressAndFallback(m) ==
    /\ m.address = address
    /\ m.country = default_carbon_intensity.country
    /\ m.value = default_carbon_intensity.carbon_intensity

\* C1: every call of fetch_carbon_intensity returns a result (none is missing)
\* with carbon_intensity >= 0, and no exception escapes the call, whatever the
\* location, the fetcher and the duration are.
C1_FetchAlwaysReturns ==
    ServiceFetched =>
        /\ ~last.raised
        /\ last.result # NoResult
        /\ last.result.carbon_intensity >= 0

\* C2: when the fetcher declared itself suitable for the resolved location and
\* its fetch operation raises, fetch_carbon_intensity returns default_carbon_intensity (is_fetched
\* false) and logs a warning naming the detected address and the fallback
\* country and value.
C2_FetchErrorFallsBackAndWarns ==
    (/\ ServiceFetched
     /\ intensity_fetcher # "None"
     /\ LocationResolved
     /\ ~last.suitable.raised /\ last.suitable.value
     /\ last.fetch.raised)
    =>
        /\ ~last.raised
        /\ last.result = default_carbon_intensity
        /\ ~last.result.is_fetched
        /\ \E i \in DOMAIN last.logged : NamesAddressAndFallback(last.logged[i])

\* C3: when the fetcher's suitable(location) returns false for the resolved
\* location,
\* fetch_carbon_intensity returns default_carbon_intensity and logs a warning,
\* whatever the fetcher would have fetched.
C3_UnsuitableFallsBack ==
    (/\ ServiceFetched
     /\ intensity_fetcher # "None"
     /\ LocationResolved
     /\ ~last.suitable.raised /\ ~last.suitable.value)
    =>
        /\ ~last.raised
        /\ last.result = default_carbon_intensity
        /\ last.logged # <<>>

\* C4: with a fetcher, a resolved location, suitable true and a fetch operation
\* that succeeds, fetch_carbon_intensity returns the fetcher's result verbatim
\* (every field as the fetcher reported it).
C4_SuccessReturnsFetcherResult ==
    (/\ ServiceFetched
     /\ intensity_fetcher # "None"
     /\ LocationResolved
     /\ ~last.suitable.raised /\ last.suitable.value
     /\ ~last.fetch.raised)
    =>
        /\ ~last.raised
        /\ last.result = last.fetch.value

\* C5: with no fetcher, every call of fetch_carbon_intensity, first or later
\* and with any duration, returns a result equal by value to
\* default_carbon_intensity, which is still the default construction computed.
C5_NoFetcherReturnsDefault ==
    (ServiceFetched /\ intensity_fetcher = "None")
    =>
        /\ ~last.raised
        /\ last.result = default_carbon_intensity
        /\ default_carbon_intensity =
               _get_default_carbon_intensity(table, address, country).result
        /\ last.suitable_calls = 0
        /\ last.carbon_intensity_calls = 0
        /\ last.fetch_calls = 0

C5_Witness ==
    /\ ServiceFetched
    /\ intensity_fetcher = "None"
    /\ ncalls = 2
    /\ last.time_duration = 300
    /\ last.result.is_localized

\* C6: when no location was resolved (geolocation raised or was not ok),
\* fetch_carbon_intensity returns default_carbon_intensity without calling the
\* fetcher's suitable or fetch operations, even with a fetcher configured (here
\* one whose suitable would not raise).
C6_NoLocationSkipsFetcher ==
    (ServiceFetched /\ ~LocationResolved /\ ~last.suitable.raised)
    =>
        /\ ~last.raised
        /\ last.result = default_carbon_intensity
        /\ last.suitable_calls = 0
        /\ last.carbon_intensity_calls = 0
        /\ last.fetch_calls = 0

----------------------------------------------------------------------------
(* Properties of construction and of default_carbon_intensity. *)

\* rows[i] is the table's row for country c: the first row with that code
IsRowOf(rows, i, c) ==
    /\ i \in DOMAIN rows
    /\ rows[i][1] = c
    /\ \A j \in 1..(i - 1) : rows[j][1] # c

HasRow(rows, c) == \E i \in DOMAIN rows : rows[i][1] = c

GeoResolved == ~geo.raises /\ geo.loc.ok

\* C7: when the location resolves to a country the table has a row for,
\* default_carbon_intensity holds the table's value for that country, with
\* is_localized true and is_fetched false, with or without a fetcher.
C7_TableHitIsLocalizedDefault ==
    (/\ pc = "ready"
     /\ GeoResolved
     /\ table.readable
     /\ HasRow(table.rows, geo.loc.country))
    =>
        /\ \E i \in DOMAIN table.rows :
              /\ IsRowOf(table.rows, i, geo.loc.country)
              /\ default_carbon_intensity.carbon_intensity = table.rows[i][2]
        /\ default_carbon_intensity.is_localized
        /\ ~default_carbon_intensity.is_fetched

C7_Witness ==
    /\ pc = "ready"
    /\ GeoResolved
    /\ geo.loc.country = "US"
    /\ table.readable
    /\ table.rows = <<<<"US", 300>>, <<"US", 120>>>>
    /\ intensity_fetcher = "ElectricityMap"
    /\ default_carbon_intensity.carbon_intensity = 300

\* C8: when location resolution fails, or the table is unreadable, or the
\* table has no row for the resolved country, default_carbon_intensity is the
\* world average (445) with is_localized, is_fetched and is_prediction false,
\* with or without a fetcher.
C8_WorldAverageDefault ==
    (/\ pc = "ready"
     /\ \/ ~GeoResolved
        \/ ~table.readable
        \/ ~HasRow(table.rows, geo.loc.country))
    =>
        /\ default_carbon_intensity.carbon_intensity = WORLD_AVG_CARBON_INTENSITY
        /\ default_carbon_intensity.carbon_intensity = 445
        /\ ~default_carbon_intensity.is_localized
        /\ ~default_carbon_intensity.is_fetched
        /\ ~default_carbon_intensity.is_prediction

C8_Witness ==
    /\ pc = "ready"
    /\ GeoResolved
    /\ geo.loc.country = "DK"
    /\ table.readable
    /\ table.rows = <<<<"US", 120>>>>
    /\ intensity_fetcher = "EnergiDataService"
    /\ default_carbon_intensity.carbon_intensity = 445

\* the operations that return a result
ReturnsResult ==
    /\ last.op \in {"fetch_carbon_intensity", "fetcher.fetch_carbon_intensity"}
    /\ ~last.raised

FetchedImpliesLocalized(r) == r.is_fetched => r.is_localized

\* C9: default_carbon_intensity, every result fetch_carbon_intensity returns
\* and every result a shipped fetcher returns has is_localized true whenever
\* is_fetched is true.
C9_FetchedImpliesLocalized ==
    /\ pc = "ready" => FetchedImpliesLocalized(default_carbon_intensity)
    /\ ReturnsResult => FetchedImpliesLocalized(last.result)

\* a fetched result returned by the service although no location was resolved
C9_Witness ==
    /\ ServiceFetched
    /\ ~last.raised
    /\ ~LocationResolved
    /\ last.result.is_fetched
    /\ last.result.is_localized

\* C10: when geolocation raises or returns not-ok, construction completes with
\* address and country both "Unknown" and a valid default_carbon_intensity
\* (not missing, carbon_intensity >= 0, not fetched, carrying that address and
\* country), whatever the table lookup does.
C10_ConstructionSurvivesNoLocation ==
    (pc = "ready" /\ ~GeoResolved)
    =>
        /\ address = "Unknown"
        /\ country = "Unknown"
        /\ default_carbon_intensity # NoResult
        /\ default_carbon_intensity.carbon_intensity >= 0
        /\ ~default_carbon_intensity.is_fetched
        /\ default_carbon_intensity.address = "Unknown"
        /\ default_carbon_intensity.country = "Unknown"
        /\ (last.op = "__init__" => ~last.raised /\ last.result = default_carbon_intensity)

C10_Witness ==
    /\ pc = "ready"
    /\ last.op = "__init__"
    /\ ~geo.raises /\ ~geo.loc.ok
    /\ table.readable
    /\ table.rows # <<>>
    /\ address = "Unknown"

----------------------------------------------------------------------------
(* Properties of what construction logs. *)

Constructed == pc = "ready" /\ last.op = "__init__"

\* the three summary messages, as tests/intensity/test_intensity.py states them
NoProviderGlobalSummary ==
    "No carbon intensity provider specified and no location detected. Defaulting to global average carbon intensity for {year}: {carbon_intensity:.2f} gCO2eq/kWh."

NoProviderCountrySummary ==
    "No carbon intensity provider specified. Using average carbon intensity for {country}: {carbon_intensity:.2f} gCO2eq/kWh."

LocationUnknownSummary ==
    "Location could not be determined. Using global average carbon intensity for {year}: {carbon_intensity:.2f} gCO2eq/kWh."

\* construction logged exactly one message, of this template
LoggedOnly(tmpl) == Len(last.logged) = 1 /\ last.logged[1].template = tmpl

\* C11: construction logs exactly one summary message, of a fixed template per
\* case: no fetcher and a world-average default; no fetcher and a country
\* default; a fetcher and an unresolved location.
C11_OneSummaryPerCase ==
    Constructed =>
        /\ (intensity_fetcher = "None" /\ ~default_carbon_intensity.is_localized)
               => LoggedOnly(NoProviderGlobalSummary)
        /\ (intensity_fetcher = "None" /\ default_carbon_intensity.is_localized)
               => LoggedOnly(NoProviderCountrySummary)
        /\ (intensity_fetcher # "None" /\ ~LocationResolved)
               => LoggedOnly(LocationUnknownSummary)

\* C12: with a fetcher and a resolved location, construction logs no warning,
\* whether the table lookup succeeds or reading the table fails.
C12_NoWarningWithFetcherAndLocation ==
    (Constructed /\ intensity_fetcher # "None" /\ LocationResolved)
    => last.logged = <<>>

----------------------------------------------------------------------------
(* Properties of generate_logging_message. *)

MessageSaid == pc = "ready" /\ last.op = "generate_logging_message"

HasHorizon(f) == f.time_duration # None_int

ServiceAddresses == {_get_address(l) : l \in AllLocations}

\* C14: generate_logging_message is a function of its argument alone: the text
\* it returned is the text any service, whatever address it resolved, returns
\* for the same result; and the call logs nothing.
C14_MessageOfResultAlone ==
    MessageSaid =>
        /\ \A a \in ServiceAddresses :
               generate_logging_message(a, message.arg) = message.text
        /\ last.logged = <<>>

----------------------------------------------------------------------------
(* Properties of the shipped fetchers' own fetch operation. *)

FetcherFetched == pc = "ready" /\ last.op = "fetcher.fetch_carbon_intensity"

\* C15: a shipped fetcher that was given a resolved location and went to the
\* network fails with CarbonIntensityFetcherError and with nothing else.
C15_OnlyFetcherError ==
    (FetcherFetched /\ LocationResolved /\ last.requests # <<>> /\ last.raised)
        => last.exc = "CarbonIntensityFetcherError"

\* C16: ElectricityMap ignores the duration: no request carries it, what the
\* call did is something the call without a duration can do, and a successful
\* fetch is a current reading (fetched, localized, no prediction, no horizon).
C16_ElectricityMapIgnoresDuration ==
    (FetcherFetched /\ intensity_fetcher = "ElectricityMap") =>
        /\ \A i \in DOMAIN last.requests : last.requests[i].time_dur = None_int
        /\ \E x \in FetchLookups("ElectricityMap", geo_location, None_int) :
               /\ x.requests = last.requests
               /\ x.raised = last.raised
               /\ x.exc = last.exc
               /\ x.value = last.result
        /\ ~last.raised =>
               /\ ~last.result.is_prediction
               /\ last.result.is_fetched
               /\ last.result.is_localized
               /\ last.result.time_duration = None_int

\* ElectricityMap was given a duration and returned a reading
C16_Witness ==
    /\ FetcherFetched
    /\ intensity_fetcher = "ElectricityMap"
    /\ last.time_duration = 300
    /\ ~last.raised
    /\ last.requests # <<>>
    /\ last.result.is_fetched

HorizonOnlyOnPrediction(r) == r.time_duration # None_int => r.is_prediction

ForecastingFetchers == {"CarbonIntensityGB", "EnergiDataService"}

\* C17: a result carries a forecast horizon only when it is a prediction; a
\* forecasting fetcher's result is a prediction exactly when a duration was
\* given, and its horizon is then that duration.
C17_HorizonOnlyOnPrediction ==
    /\ pc = "ready" => HorizonOnlyOnPrediction(default_carbon_intensity)
    /\ ReturnsResult => HorizonOnlyOnPrediction(last.result)
    /\ (FetcherFetched /\ ~last.raised /\ intensity_fetcher \in ForecastingFetchers) =>
           /\ last.result.is_prediction <=> last.time_duration # None_int
           /\ last.result.is_prediction => last.result.time_duration = last.time_duration

\* a forecasting fetcher was given a duration and returned a forecast
C17_Witness ==
    /\ FetcherFetched
    /\ intensity_fetcher = "CarbonIntensityGB"
    /\ ~last.raised
    /\ last.time_duration = 300
    /\ last.result.is_prediction
    /\ last.result.time_duration = 300

----------------------------------------------------------------------------
(* Properties of sequences of calls on one service instance. *)

\* C18: a fetch_carbon_intensity call of a service with a fetcher that found
\* the resolved location suitable invokes the fetcher's fetch operation once.
C18_OneFetchPerCall ==
    (/\ ServiceFetched
     /\ intensity_fetcher # "None"
     /\ LocationResolved
     /\ ~last.suitable.raised
     /\ last.suitable.value)
        => last.fetch_calls = 1

\* C19: once the service is constructed no call changes its location, address,
\* country or default_carbon_intensity.
C19_WriteOnce == [][pc = "ready" => UNCHANGED service_vars]_vars

\* a second call on a service whose first call fetched a value
C19_Witness ==
    /\ pc = "ready"
    /\ ncalls = 2
    /\ MessageSaid
    /\ message.arg.is_fetched
    /\ ~default_carbon_intensity.is_fetched

\* C20: the geolocation collaborator is asked once, by the constructor, before
\* the default is computed; the calls that follow work on the location it gave.
C20_GeoResolvedOnce ==
    /\ pc = "new" => geo_calls = 0
    /\ pc = "ready" =>
           /\ geo_calls = 1
           /\ geo_location = _fetch_geo_location(geo)
           /\ default_carbon_intensity =
                  _get_default_carbon_intensity(table, _get_address(geo_location),
                                                _get_country(geo_location)).result
    /\ (ServiceFetched /\ last.suitable_calls = 1 /\ ~last.suitable.raised
            /\ intensity_fetcher \in ShippedFetchers) =>
           \E c \in SuitableChoices(intensity_fetcher) :
               last.suitable = suitable(intensity_fetcher, _fetch_geo_location(geo), c)

\* two fetches on one instance, each asking the fetcher about the location
C20_Witness ==
    /\ ServiceFetched
    /\ ncalls = 2
    /\ geo_calls = 1
    /\ last.suitable_calls = 1
    /\ LocationResolved

----------------------------------------------------------------------------
(* Properties of the requests the shipped fetchers make. *)

ElectricityMapFetched == FetcherFetched /\ intensity_fetcher = "ElectricityMap"

HasCoordinates(g_location) ==
    ~g_location.is_none /\ g_location.lng # None_str /\ g_location.lat # None_str

\* C21: ElectricityMap looks up by coordinates first and by zone only when
\* that failed; a successful coordinate lookup is the result and ends the
\* fetch; the zone lookup's value is otherwise the result; a request carries
\* the coordinates or the zone, never both.
C21_CoordinatesThenZone ==
    ElectricityMapFetched =>
        LET r == last.requests
        IN  /\ Len(r) <= 2
            /\ \A i \in DOMAIN r :
                   \/ r[i].endpoint = "lonlat"
                          /\ r[i].arg = <<geo_location.lng, geo_location.lat>>
                   \/ r[i].endpoint = "zone" /\ r[i].arg = <<geo_location.country>>
            /\ HasCoordinates(geo_location) => (Len(r) >= 1 /\ r[1].endpoint = "lonlat")
            /\ \A i \in DOMAIN r : r[i].endpoint = "lonlat" =>
                   /\ i = 1
                   /\ r[i].answer.kind = "ok" =>
                          /\ Len(r) = 1
                          /\ ~last.raised
                          /\ last.result.carbon_intensity = Head(r[i].answer.values)
            /\ \A i \in DOMAIN r : r[i].endpoint = "zone" =>
                   /\ i = Len(r)
                   /\ IF i = 1 THEN ~HasCoordinates(geo_location)
                      ELSE r[1].endpoint = "lonlat" /\ r[1].answer.kind # "ok"
                   /\ r[i].answer.kind # "ok" => last.raised
                   /\ r[i].answer.kind = "ok" =>
                          /\ ~last.raised
                          /\ last.result.carbon_intensity = Head(r[i].answer.values)

\* the coordinate lookup failed and the zone lookup gave the value
C21_Witness ==
    /\ ElectricityMapFetched
    /\ Len(last.requests) = 2
    /\ last.requests[1].endpoint = "lonlat"
    /\ last.requests[1].answer.kind = "notok"
    /\ last.requests[2].endpoint = "zone"
    /\ last.requests[2].answer.kind = "ok"
    /\ ~last.raised
    /\ last.result.carbon_intensity = 24

\* the forecast window of EnergiDataService on its own
IntervalNext ==
    \/ Construct
    \/ Interval

IntervalSpec == Init /\ [][IntervalNext]_vars

WindowTaken == window.now # None_int

\* the time of day a formatted time names, in seconds
Seconds(str) == str.hour * 3600 + str.minute * 60

Distance(a, b) == IF a >= b THEN a - b ELSE b - a

\* on a 5-minute boundary, at most 2.5 minutes from time
NearestBoundary(str, time) ==
    /\ str.minute % 5 = 0
    /\ 2 * Distance(Seconds(str), time) <= 5 * 60

\* C22: both ends of the forecast window, now and now + duration, are rounded
\* to the nearest 5-minute boundary.
C22_WindowRoundsToNearest ==
    WindowTaken =>
        /\ NearestBoundary(window.from_str, window.now)
        /\ NearestBoundary(window.to_str, window.now + window.time_dur)

\* CarbonIntensityGB's fetch, given a location object
CarbonIntensityGBFetched ==
    FetcherFetched /\ intensity_fetcher = "CarbonIntensityGB" /\ ~geo_location.is_none

IsOk(request) == request.answer.kind = "ok"

EmissionCurrentFetched ==
    /\ FetcherFetched
    /\ intensity_fetcher = "EnergiDataService"
    /\ last.time_duration = None_int
    /\ ~geo_location.is_none

\* DK1 is queried, then DK2 unless DK1 failed; the fetch returns exactly when
\* both gave records, and then the mean of the first record of each
BothAreasOrNothing ==
    LET r == last.requests
        n == Len(r)
    IN  /\ n \in {1, 2}
        /\ \A i \in DOMAIN r : r[i].endpoint = "current" /\ r[i].time_dur = None_int
        /\ r[1].arg = <<"DK1">>
        /\ n = 2 => r[2].arg = <<"DK2">>
        /\ n = 2 <=> IsOk(r[1])
        /\ ~last.raised <=> (n = 2 /\ IsOk(r[1]) /\ IsOk(r[2]))
        /\ ~last.raised =>
               last.result.carbon_intensity =
                   Mean(<<Head(r[1].answer.values), Head(r[2].answer.values)>>)

\* C24: the current reading needs both areas, DK1 then DK2, and is the mean of
\* their first records; when an area fails or is empty DK2 is not queried
\* after DK1, no partial value is returned, and the fetch fails with
\* CarbonIntensityFetcherError.
C24_BothAreasOrFetcherError ==
    EmissionCurrentFetched =>
        /\ BothAreasOrNothing
        /\ last.raised => last.exc = "CarbonIntensityFetcherError"

\* the part of C24 that does not name the error
C24_BothAreasOrFailure == EmissionCurrentFetched => BothAreasOrNothing

====
